---- MODULE Spec2Model ----
(***************************************************************************)
(* Coordinate-to-field matching and image-overlay engine of the form       *)
(* filler (backend/server/image_generator.py), the workflows that call it  *)
(* (real_workflow.py, websocket_workflow.py, hardcoded_data_manager.py)    *)
(* and the layout extractor (enhanced_coordinate_extractor.py).            *)
(*                                                                         *)
(* Strings are TLA+ strings; Python's str methods (lower, strip, split,    *)
(* `in`) are computed character by character.  Normalized coordinates of   *)
(* a coordinate map are fixed-point numbers in hundredths of the page      *)
(* (0.05 is 5), pixel positions in hundredths of a pixel, so               *)
(* x * image_width is exact; the extractor's quotients are fractions.      *)
(***************************************************************************)
EXTENDS Integers, Sequences, FiniteSets, TLC

VARIABLES
    filled_schema,      \* the caller's schema object (mutable dict)
    schema_before,      \* filled_schema as it was when the last generate_* call began
    field_coordinates,  \* the extracted coordinate map, in iteration order
    coordinate_file,    \* the persisted coordinate map file
    image_size,         \* <<width, height>> of the original image
    canvas,             \* draw operations applied to self.original_image
    last_call,          \* what the last generate_* call did, field by field
    prev_call,          \* last_call of the call before the last one
    calls,              \* operations invoked so far
    adjustments,        \* runs of adjust_last_name_coordinates on the file
    output_writable,    \* whether img_to_save.save(output_path) succeeds
    output_path,        \* the output_path argument of the generate_* calls
    workflow,           \* what the last workflow run did
    persisted_for,      \* the image of the run that last wrote coordinate_file
    loaded_data,        \* HardcodedDataManager.loaded_data
    data_dir,           \* the JSON files of ./hardcoded_data
    created,            \* what the last create_hardcoded_entry call was given
    analysis_result,    \* the layout analysis handed to the extractor
    extraction,         \* what the last extract_field_coordinates call did
    user_language,      \* WebSocketSpeechFormFiller.user_language
    language_call,      \* what the last call of a language method did
    conversation,       \* the conversation: its counters, its events and the
                        \* frames of ask_next_question that have not returned
    app                 \* app.py: ws_form_filler, the workflow threads and the
                        \* socket handlers that are inside start_conversation

render_vars == <<filled_schema, schema_before, field_coordinates, coordinate_file,
                 image_size, canvas, last_call, prev_call, calls, adjustments,
                 output_writable, output_path>>

workflow_vars == <<workflow, persisted_for, loaded_data, data_dir, created>>

extract_vars == <<analysis_result, extraction>>

conversation_vars == <<user_language, language_call, conversation, app>>

vars == <<render_vars, workflow_vars, extract_vars, conversation_vars>>

----------------------------------------------------------------------------
(* Bounds of the model *)

MaxKeys == 3

MaxFields == 2

MaxRenderKeys == 2

MaxCalls == 2

MaxAdjustments == 2

MaxParagraphs == 2

MaxLines == 1

MaxEntries == 2

MaxRequired == 2

MaxThreads == 2

MaxHandlers == 1

----------------------------------------------------------------------------
(* Python str operations *)

Char(s, i) == SubSeq(s, i, i)

Tail1(s) == SubSeq(s, 2, Len(s))

LowerChar(c) ==
    CASE c = "A" -> "a" [] c = "B" -> "b" [] c = "C" -> "c" [] c = "D" -> "d"
      [] c = "E" -> "e" [] c = "F" -> "f" [] c = "G" -> "g" [] c = "H" -> "h"
      [] c = "I" -> "i" [] c = "J" -> "j" [] c = "K" -> "k" [] c = "L" -> "l"
      [] c = "M" -> "m" [] c = "N" -> "n" [] c = "O" -> "o" [] c = "P" -> "p"
      [] c = "Q" -> "q" [] c = "R" -> "r" [] c = "S" -> "s" [] c = "T" -> "t"
      [] c = "U" -> "u" [] c = "V" -> "v" [] c = "W" -> "w" [] c = "X" -> "x"
      [] c = "Y" -> "y" [] c = "Z" -> "z" [] OTHER -> c

RECURSIVE lower(_)
lower(s) == IF s = "" THEN "" ELSE LowerChar(Char(s, 1)) \o lower(Tail1(s))

IsSpace(c) == c \in {" ", "\t", "\n", "\r"}

\* sub in s
Contains(sub, s) ==
    \E i \in 0..(Len(s) - Len(sub)) : SubSeq(s, i + 1, i + Len(sub)) = sub

RECURSIVE lstrip(_)
lstrip(s) == IF s # "" /\ IsSpace(Char(s, 1)) THEN lstrip(Tail1(s)) ELSE s

RECURSIVE rstrip(_)
rstrip(s) ==
    IF s # "" /\ IsSpace(Char(s, Len(s)))
    THEN rstrip(SubSeq(s, 1, Len(s) - 1))
    ELSE s

strip(s) == rstrip(lstrip(s))

\* s.split(): the maximal runs of non-whitespace characters, in order
RECURSIVE SplitFrom(_, _)
SplitFrom(s, word) ==
    IF s = ""
    THEN IF word = "" THEN <<>> ELSE <<word>>
    ELSE IF IsSpace(Char(s, 1))
         THEN (IF word = "" THEN <<>> ELSE <<word>>) \o SplitFrom(Tail1(s), "")
         ELSE SplitFrom(Tail1(s), word \o Char(s, 1))

split(s) == SplitFrom(s, "")

\* s.rfind(c) + 1: the position of the last c in s, 0 when there is none
RECURSIVE rfind(_, _)
rfind(s, c) ==
    IF s = "" THEN 0
    ELSE IF Char(s, Len(s)) = c THEN Len(s)
         ELSE rfind(SubSeq(s, 1, Len(s) - 1), c)

\* os.path.basename(path)
basename(path) == SubSeq(path, rfind(path, "/") + 1, Len(path))

\* os.path.splitext(name)[0] of a name without directories: the extension
\* starts at the last dot that follows a character other than a dot
splitext_root(name) ==
    LET dot == rfind(name, ".")
        LeadingDots(n) == \A i \in 1..n : Char(name, i) = "."
    IN IF dot = 0 \/ LeadingDots(dot) THEN name
       ELSE SubSeq(name, 1, dot - 1)

\* any(p(e) for e in seq)
AnyOf(seq, p(_)) == \E i \in 1..Len(seq) : p(seq[i])

----------------------------------------------------------------------------
(* FormImageGenerator.estimate_field_position *)

NoCoordinates == <<>>

\* a fallback table whose last branch repeats the 'name' row
estimate_field_position_no_default(f, image_width, image_height) ==
    LET label == lower(f.label) IN
    IF Contains("address", label) THEN <<image_width * 30, image_height * 25>>
    ELSE IF Contains("city", label) THEN <<image_width * 30, image_height * 35>>
    ELSE IF Contains("state", label) THEN <<image_width * 30, image_height * 45>>
    ELSE IF Contains("zip", label) \/ Contains("postal", label)
         THEN <<image_width * 30, image_height * 55>>
    ELSE IF Contains("ssn", label) \/ Contains("social", label)
         THEN <<image_width * 30, image_height * 65>>
    ELSE IF Contains("ein", label) \/ Contains("employer", label)
         THEN <<image_width * 30, image_height * 75>>
    ELSE <<image_width * 30, image_height * 15>>

estimate_field_position(f, image_width, image_height) ==
    LET label == lower(f.label) IN
    IF Contains("name", label) THEN <<image_width * 30, image_height * 15>>
    ELSE IF Contains("address", label) THEN <<image_width * 30, image_height * 25>>
    ELSE IF Contains("city", label) THEN <<image_width * 30, image_height * 35>>
    ELSE IF Contains("state", label) THEN <<image_width * 30, image_height * 45>>
    ELSE IF Contains("zip", label) \/ Contains("postal", label)
         THEN <<image_width * 30, image_height * 55>>
    ELSE IF Contains("ssn", label) \/ Contains("social", label)
         THEN <<image_width * 30, image_height * 65>>
    ELSE IF Contains("ein", label) \/ Contains("employer", label)
         THEN <<image_width * 30, image_height * 75>>
    ELSE <<image_width * 30, image_height * 85>>

----------------------------------------------------------------------------
(* FormImageGenerator.find_best_coordinate_match *)

\* the dict semantic_matches, in insertion order
semantic_matches ==
    << [type |-> "name",    keywords |-> <<"name", "legal", "business">>],
       [type |-> "address", keywords |-> <<"address", "street">>],
       [type |-> "city",    keywords |-> <<"city", "town">>],
       [type |-> "state",   keywords |-> <<"state", "province">>],
       [type |-> "zip",     keywords |-> <<"zip", "postal">>],
       [type |-> "ssn",     keywords |-> <<"ssn", "social", "security">>],
       [type |-> "ein",     keywords |-> <<"ein", "employer", "identification">>] >>

\* the first index of seq whose element satisfies p, 0 when there is none
FirstIndex(seq, p(_)) ==
    IF \E i \in 1..Len(seq) : p(seq[i])
    THEN CHOOSE i \in 1..Len(seq) :
            p(seq[i]) /\ \A j \in 1..(i - 1) : ~p(seq[j])
    ELSE 0

ExactMatch(field_label, coord_label) == lower(coord_label) = field_label

\* coord_label_lower in field_label or field_label in coord_label_lower
ContainmentMatch(field_label, coord_label) ==
    LET coord_label_lower == lower(coord_label)
    IN \/ Contains(coord_label_lower, field_label)
       \/ Contains(field_label, coord_label_lower)

\* any(word in coord_label_lower for word in field_label.split()) or
\* any(word in field_label for word in coord_label_lower.split())
TokenOverlap(field_label, coord_label) ==
    LET coord_label_lower == lower(coord_label)
        InCoord(word) == Contains(word, coord_label_lower)
        InField(word) == Contains(word, field_label)
    IN \/ AnyOf(split(field_label), InCoord)
       \/ AnyOf(split(coord_label_lower), InField)

\* the condition of the second loop
PartialMatch(field_label, coord_label) ==
    \/ ContainmentMatch(field_label, coord_label)
    \/ TokenOverlap(field_label, coord_label)

HasKeyword(keywords, text) ==
    LET In(keyword) == Contains(keyword, text) IN AnyOf(keywords, In)

\* a semantic loop that classifies the key only, not the field label
RECURSIVE SemanticIndexKeyOnly(_, _, _)
SemanticIndexKeyOnly(field_label, coords, t) ==
    IF t > Len(semantic_matches) THEN 0
    ELSE LET keywords == semantic_matches[t].keywords
             Hit(entry) == HasKeyword(keywords, lower(entry.label))
             k == FirstIndex(coords, Hit)
         IN IF k # 0 THEN k ELSE SemanticIndexKeyOnly(field_label, coords, t + 1)

\* the loop over semantic_matches.items(): the index of the key returned, or 0
RECURSIVE SemanticIndex(_, _, _)
SemanticIndex(field_label, coords, t) ==
    IF t > Len(semantic_matches) THEN 0
    ELSE LET keywords == semantic_matches[t].keywords
             Hit(entry) == HasKeyword(keywords, lower(entry.label))
             k == IF HasKeyword(keywords, field_label)
                  THEN FirstIndex(coords, Hit) ELSE 0
         IN IF k # 0 THEN k ELSE SemanticIndex(field_label, coords, t + 1)

\* a matcher whose exact test sits in the same loop as the partial tests
MatchIndexOnePass(f, coords) ==
    LET field_label == lower(f.label)
        Either(entry) == \/ ExactMatch(field_label, entry.label)
                         \/ PartialMatch(field_label, entry.label)
        p == FirstIndex(coords, Either)
    IN IF p # 0 THEN p ELSE SemanticIndex(field_label, coords, 1)

\* a matcher with a containment loop of its own before the token-overlap loop
MatchIndexContainmentFirst(f, coords) ==
    LET field_label == lower(f.label)
        Exact(entry) == ExactMatch(field_label, entry.label)
        Containment(entry) == ContainmentMatch(field_label, entry.label)
        Token(entry) == TokenOverlap(field_label, entry.label)
        e == FirstIndex(coords, Exact)
        c == FirstIndex(coords, Containment)
        t == FirstIndex(coords, Token)
    IN IF e # 0 THEN e
       ELSE IF c # 0 THEN c
       ELSE IF t # 0 THEN t
       ELSE SemanticIndex(field_label, coords, 1)

\* the index in the map of the key whose coordinate is returned, 0 for None
MatchIndex(f, coords) ==
    LET field_label == lower(f.label)
        Exact(entry) == ExactMatch(field_label, entry.label)
        Partial(entry) == PartialMatch(field_label, entry.label)
        e == FirstIndex(coords, Exact)
        p == FirstIndex(coords, Partial)
    IN IF e # 0 THEN e
       ELSE IF p # 0 THEN p
       ELSE SemanticIndex(field_label, coords, 1)

find_best_coordinate_match(f, coords) ==
    LET k == MatchIndex(f, coords) IN
    IF k = 0 THEN NoCoordinates ELSE coords[k].xy

----------------------------------------------------------------------------
(* Schemas and the field list both render loops build from them *)

\* for section in filled_schema['sections']: fields.extend(section.get('fields', []))
RECURSIVE SectionFields(_)
SectionFields(sections) ==
    IF sections = <<>> THEN <<>>
    ELSE Head(sections).fields \o SectionFields(Tail(sections))

\* fields = filled_schema.get('fields', [])
GetFields(schema) == IF schema.has_fields THEN schema.fields ELSE <<>>

\* the list the render loop iterates
FlattenedFields(schema) ==
    IF GetFields(schema) = <<>> /\ schema.has_sections
    THEN SectionFields(schema.sections)
    ELSE GetFields(schema)

\* a flattening that extends the schema's own list whether or not it is empty
SchemaAfterFlattenUnguarded(schema) ==
    IF schema.has_fields /\ schema.has_sections
    THEN [schema EXCEPT !.fields = @ \o SectionFields(schema.sections)]
    ELSE schema

\* the schema object after the flattening: `fields` is the schema's own list
\* when the key is present, and fields.extend(...) then appends to that list
SchemaAfterFlatten(schema) ==
    IF schema.has_fields /\ schema.fields = <<>> /\ schema.has_sections
    THEN [schema EXCEPT !.fields = SectionFields(schema.sections)]
    ELSE schema

\* a value test without the strip()
HasValueNoStrip(f) == f.value_kind = "str" /\ f.value # ""

\* field.get('value') and field.get('value').strip()
HasValue(f) == f.value_kind = "str" /\ f.value # "" /\ strip(f.value) # ""

----------------------------------------------------------------------------
(* The render loops *)

LastNameShift == 5

last_name_variations ==
    <<"last_name", "lastname", "last name", "surname", "family_name">>

IsLastName(label) == HasKeyword(last_name_variations, lower(label))

Skipped(f) ==
    [label |-> f.label, value |-> f.value, drawn |-> FALSE, via |-> "skipped",
     coordinates |-> NoCoordinates, final |-> NoCoordinates,
     position |-> NoCoordinates, fill |-> "none", boxed |-> FALSE]

\* one iteration of the loop of generate_filled_image
EstimatedField(f, image_width, image_height) ==
    IF HasValue(f)
    THEN [label |-> f.label, value |-> f.value, drawn |-> TRUE, via |-> "estimated",
          coordinates |-> NoCoordinates, final |-> NoCoordinates,
          position |-> estimate_field_position(f, image_width, image_height),
          fill |-> "black", boxed |-> TRUE]
    ELSE Skipped(f)

\* the last-name adjustment of a matched coordinate
AdjustedCoordinates(label, coordinates) ==
    IF IsLastName(label)
    THEN <<coordinates[1], coordinates[2] + LastNameShift>>
    ELSE coordinates

\* a multiplication that takes both factors from the image width
PixelPositionByWidth(final, image_width, image_height) ==
    <<final[1] * image_width, final[2] * image_width>>

\* x = coordinates[0] * self.original_image.width, y = coordinates[1] * ...height
PixelPosition(final, image_width, image_height) ==
    <<final[1] * image_width, final[2] * image_height>>

\* one iteration of the loop of generate_filled_image_with_coordinates
PositionedField(f, coords, image_width, image_height) ==
    IF HasValue(f)
    THEN LET coordinates == find_best_coordinate_match(f, coords) IN
         IF coordinates # NoCoordinates
         THEN LET final == AdjustedCoordinates(f.label, coordinates) IN
              [label |-> f.label, value |-> f.value, drawn |-> TRUE, via |-> "matched",
               coordinates |-> coordinates, final |-> final,
               position |-> PixelPosition(final, image_width, image_height),
               fill |-> "black", boxed |-> TRUE]
         ELSE [label |-> f.label, value |-> f.value, drawn |-> TRUE, via |-> "estimated",
               coordinates |-> NoCoordinates, final |-> NoCoordinates,
               position |-> estimate_field_position(f, image_width, image_height),
               fill |-> "red", boxed |-> FALSE]
    ELSE Skipped(f)

\* self.draw.text(...) and self.draw.rectangle(...) of one loop iteration
DrawOps(entry) ==
    IF ~entry.drawn THEN <<>>
    ELSE <<[op |-> "text", xy |-> entry.position, text |-> entry.value,
            colour |-> entry.fill]>>
         \o (IF entry.boxed
             THEN <<[op |-> "rectangle", xy |-> entry.position, text |-> entry.value,
                     colour |-> "blue"]>>
             ELSE <<>>)

RECURSIVE AllDrawOps(_)
AllDrawOps(trace) ==
    IF trace = <<>> THEN <<>> ELSE DrawOps(Head(trace)) \o AllDrawOps(Tail(trace))

EstimatedPass(schema, size) ==
    LET fields == FlattenedFields(schema) IN
    [i \in 1..Len(fields) |-> EstimatedField(fields[i], size[1], size[2])]

PositionedPass(schema, coords, size) ==
    LET fields == FlattenedFields(schema) IN
    [i \in 1..Len(fields) |-> PositionedField(fields[i], coords, size[1], size[2])]

----------------------------------------------------------------------------
(* Inputs: fields, schemas and coordinate maps *)

Field(label, name, value_kind, value) ==
    [label |-> label, name |-> name, value_kind |-> value_kind, value |-> value]

\* fields put to the matcher, one per schema
MatchFields ==
    { Field("Last Name", "last_name", "str", "Doe"),
      Field("Family Name", "", "str", "Roe"),
      Field("First Name", "first_name", "str", "Ann"),
      Field("Zip Code", "postal", "str", "10001"),
      Field("Legal Entity", "company", "str", "Acme"),
      Field("Unknown Field", "", "str", "X") }

\* keys of extracted coordinate maps, each with its own coordinate
CoordKeys ==
    { [label |-> "Last Name",     xy |-> <<10, 10>>],
      [label |-> "LAST NAME",     xy |-> <<15, 98>>],
      [label |-> "Name",          xy |-> <<20, 20>>],
      [label |-> "Family Name",   xy |-> <<30, 40>>],
      [label |-> "First Name",    xy |-> <<30, 20>>],
      [label |-> "Last Four",     xy |-> <<50, 50>>],
      [label |-> "zip",           xy |-> <<30, 60>>],
      [label |-> "postal",        xy |-> <<40, 65>>],
      [label |-> "Business Name", xy |-> <<60, 30>>] }

\* fields of the schemas that are rendered
RenderFields ==
    { Field("Last Name", "last_name", "str", "Doe"),
      Field("First Name", "first_name", "str", "Ann"),
      Field("Address", "", "absent", ""),
      Field("City", "", "none", ""),
      Field("State", "", "str", ""),
      Field("Name", "", "str", " \t") }

RenderKeys ==
    { [label |-> "First Name",  xy |-> <<25, 50>>],
      [label |-> "last_name",   xy |-> <<15, 30>>] }

\* the sequences of at most n distinct elements of S
SeqsUpTo(S, n) ==
    UNION { { q \in [1..k -> S] : \A i, j \in 1..k : q[i] = q[j] => i = j } : k \in 0..n }

FlatSchema(fs) ==
    [has_fields |-> TRUE, fields |-> fs, has_sections |-> FALSE, sections |-> <<>>,
     values |-> <<>>]

\* the first field in one section, the rest in a second one; no 'fields' key
SectionedSchema(fs) ==
    [has_fields |-> FALSE, fields |-> <<>>, has_sections |-> TRUE,
     sections |-> << [fields |-> SubSeq(fs, 1, 1)],
                     [fields |-> SubSeq(fs, 2, Len(fs))] >>,
     values |-> <<>>]

\* a 'fields' key holding the first k fields and a 'sections' key holding the rest
MixedSchema(fs, k) ==
    [has_fields |-> TRUE, fields |-> SubSeq(fs, 1, k), has_sections |-> TRUE,
     sections |-> << [fields |-> SubSeq(fs, k + 1, Len(fs))] >>,
     values |-> <<>>]

\* a mapping from field names to values with neither a 'fields' nor a
\* 'sections' key, as create_mock_schema builds it
MappingSchema(fs) ==
    [has_fields |-> FALSE, fields |-> <<>>, has_sections |-> FALSE, sections |-> <<>>,
     values |-> [i \in 1..Len(fs) |-> [name |-> fs[i].name, value |-> fs[i].value]]]

\* required fields of a conversation, without a value yet; the options of the
\* third are numbers, which ', '.join(...) does not take
ConversationFields ==
    { [label |-> "First Name", name |-> "first_name", value_kind |-> "str",
       value |-> "", options |-> "none"],
      [label |-> "Last Name", name |-> "last_name", value_kind |-> "str",
       value |-> "", options |-> "strings"],
      [label |-> "Dependants", name |-> "", value_kind |-> "str",
       value |-> "", options |-> "numbers"] }

\* the fields of the mock schema that the rendered pool holds
MockFields == { f \in RenderFields : f.name # "" }

Schemas ==
    UNION { {FlatSchema(fs)}
            \cup (IF fs = <<>> THEN {} ELSE {SectionedSchema(fs)})
            \cup { MixedSchema(fs, k) : k \in (0..1) \cap (0..(Len(fs) - 1)) }
          : fs \in SeqsUpTo(RenderFields, MaxFields) }
    \cup { MappingSchema(fs) : fs \in SeqsUpTo(MockFields, MaxFields) \ {<<>>} }

ImageSizes == { <<1000, 2000>> }

MissingFile == [state |-> "missing", content |-> <<>>]

InvalidFile == [state |-> "invalid", content |-> <<>>]

ValidFile(coords) == [state |-> "valid", content |-> coords]

\* the source images the workflows are run on
FormA == [name |-> "formA.png", stem |-> "formA", hash |-> "a1f0"]

FormB == [name |-> "formB.png", stem |-> "formB", hash |-> "b2e7"]

Images == {FormA, FormB}

\* what layout analysis finds on each image
LayoutMap(image) ==
    IF image = FormA THEN << [label |-> "First Name", xy |-> <<25, 50>>] >>
                     ELSE << [label |-> "last_name", xy |-> <<15, 30>>] >>

\* the results get_coordinate_mapping can return for an image: nothing, or its layout
AnalysisOutcomes(image) == { <<>>, LayoutMap(image) }

\* a hand-edited coordinate map
ManualMap == << [label |-> "First Name", xy |-> <<30, 20>>] >>

HardcodedEntry(key, coords) == [key |-> key, coordinates |-> coords]

\* contents of ./hardcoded_data as _load_all_data stores them: nothing; an
\* entry for form A under its hash and its filename; an entry under the stem
\* of form B; an entry for form A that holds no coordinates
HardcodedStores ==
    { <<>>,
      << HardcodedEntry(FormA.hash, ManualMap), HardcodedEntry(FormA.name, ManualMap) >>,
      << HardcodedEntry(FormB.stem, ManualMap) >>,
      << HardcodedEntry(FormA.name, <<>>) >> }

\* form titles handed to create_hardcoded_entry; "" stands for None
FormTitles == { "", "W 9", "W_9" }

\* a JSON file of ./hardcoded_data: its name without ".json" and the
\* metadata and coordinates it holds; "" for a metadata key that is absent
DataFile(stem, file_hash, filename, form_title, coords) ==
    [stem |-> stem, file_hash |-> file_hash, filename |-> filename,
     form_title |-> form_title, coordinates |-> coords]

\* ./hardcoded_data when the manager is constructed: empty, or holding a
\* hand-written file named after form A that carries no metadata
InitialDataDirs ==
    { {}, { DataFile(FormA.stem, "", "", "", LayoutMap(FormA)) } }

NoEntry == [image |-> "", coordinates |-> <<>>, form_title |-> "", stem |-> ""]

NoWorkflow ==
    [op |-> "none", image |-> "", file_state |-> "missing", file_owner |-> "none",
     persisted |-> <<>>, from_file |-> FALSE, analysed |-> FALSE,
     coords |-> <<>>, raised |-> FALSE]

TextElement(content, polygon) == [content |-> content, polygon |-> polygon]

\* paragraphs of an analysis: a quadrilateral, a triangle, a polygon of one
\* point pair, none at all, text that names no field, blank text, a segment
\* right of the page, a second text of the city category
ParagraphPool ==
    { TextElement("Full Name", <<40, 10, 80, 10, 80, 30, 40, 30>>),
      TextElement("City", <<0, 0, 30, 0, 0, 30>>),
      TextElement("Name", <<10, 10>>),
      TextElement("Name", <<>>),
      TextElement("Remarks", <<40, 10, 80, 10, 80, 30, 40, 30>>),
      TextElement("  ", <<40, 10, 80, 10, 80, 30, 40, 30>>),
      TextElement("Zip Code", <<90, 40, 130, 40>>),
      TextElement(" Town ", <<10, 20, 50, 20>>) }

LinePool ==
    { TextElement("City", <<0, 0, 30, 0, 0, 30>>),
      TextElement("Name", <<10, 10>>),
      TextElement("State", <<20, 40, 60, 40, 60, 48, 20, 48>>) }

PageWidths == {0, 100}

PageHeights == {0, 50}

Analysis(pages, paragraphs) == [pages |-> pages, paragraphs |-> paragraphs]

Page(width, height, lines) == [width |-> width, height |-> height, lines |-> lines]

AnalysisResults ==
    { Analysis(<<>>, ps) : ps \in SeqsUpTo(ParagraphPool, 1) }
    \cup { Analysis(<<Page(w, h, ls)>>, ps) :
              w \in PageWidths, h \in PageHeights,
              ls \in SeqsUpTo(LinePool, MaxLines),
              ps \in SeqsUpTo(ParagraphPool, MaxParagraphs) }

NoAnalysis == Analysis(<<>>, <<>>)

NoExtraction ==
    [op |-> "none", raised |-> FALSE, field_coordinates |-> <<>>, stored |-> <<>>,
     openai |-> "none"]

\* what the chat completion request of _openai_field_mapping comes back with:
\* an API error, a reply that is not JSON, or a JSON object of field names
\* and coordinate lists (one of them not a pair)
OpenAIReplies ==
    { [kind |-> "api_error", mapping |-> <<>>],
      [kind |-> "unparseable", mapping |-> <<>>],
      [kind |-> "json", mapping |-> <<>>],
      [kind |-> "json", mapping |-> << [field |-> "name", coords |-> <<60, 20>>],
                                       [field |-> "city", coords |-> <<10>>] >>] }

\* output_path is None
NoPath == ""

OutputPaths == { NoPath, "uploads/test_filled_form.jpg" }

\* the image a stand-alone generator is constructed on
original_image_path == "uploads/test_form.png"

NoCall ==
    [op |-> "none", trace |-> <<>>, coords |-> <<>>,
     passes |-> 0, saves |-> 0, raised |-> FALSE,
     output_path |-> NoPath, returned |-> NoPath, saved |-> FALSE, output |-> <<>>]

----------------------------------------------------------------------------
(* Operations *)

\* what a generate_* call leaves behind: the flattened schema, the draw
\* operations of its render passes on the image, one save attempt per pass,
\* and whether an exception reached its caller
CallEffect(op, trace, coords, image, passes, raised, path) ==
    /\ schema_before' = filled_schema
    /\ filled_schema' = SchemaAfterFlatten(filled_schema)
    /\ prev_call' = last_call
    /\ canvas' = image \o AllDrawOps(trace)
    /\ last_call' = [op |-> op, trace |-> trace, coords |-> coords,
                     passes |-> passes, saves |-> passes, raised |-> raised,
                     output_path |-> path,
                     returned |-> IF output_writable THEN path ELSE NoPath,
                     saved |-> output_writable,
                     output |-> IF output_writable THEN image \o AllDrawOps(trace)
                                                   ELSE <<>>]
    /\ calls' = calls + 1
    /\ UNCHANGED <<image_size, adjustments, output_writable, output_path>>

\* a generator that ignores the output_path it is given
OutputPath_derived(prefix, path, image_path) ==
    prefix \o splitext_root(basename(image_path)) \o ".jpg"

\* the path a generate_* method saves to: `if output_path is None` derives
\* one from the image the generator was constructed on
OutputPath(prefix, path, image_path) ==
    IF path = NoPath
    THEN prefix \o splitext_root(basename(image_path)) \o ".jpg"
    ELSE path

\* one render pass on this generator instance, then img_to_save.save(...),
\* whose exception nothing in the method catches
RenderPass(op, trace, coords, image) ==
    /\ CallEffect(op, trace, coords, image, 1, ~output_writable,
                  OutputPath("filled_", output_path, original_image_path))
    /\ UNCHANGED <<field_coordinates, coordinate_file>>
    /\ UNCHANGED <<workflow_vars, extract_vars, conversation_vars>>

\* FormImageGenerator.generate_filled_image
GenerateFilledImage ==
    /\ calls < MaxCalls
    /\ RenderPass("generate_filled_image",
                  EstimatedPass(filled_schema, image_size), <<>>, canvas)

\* FormImageGenerator.generate_filled_image_with_coordinates
GenerateFilledImageWithCoordinates ==
    /\ calls < MaxCalls
    /\ RenderPass("generate_filled_image_with_coordinates",
                  PositionedPass(filled_schema, field_coordinates, image_size),
                  field_coordinates, canvas)

\* the two passes of generate_filled_image_with_coordinate_file when the save
\* of the coordinate pass raises inside its try block: the except clause runs
\* generate_filled_image on the canvas the first pass drew on
PositionedThenEstimatedPass(schema, coords, size) ==
    PositionedPass(schema, coords, size)
    \o EstimatedPass(SchemaAfterFlatten(schema), size)

\* FormImageGenerator.generate_filled_image_with_coordinate_file
GenerateFilledImageWithCoordinateFile ==
    /\ calls < MaxCalls
    /\ IF coordinate_file.state = "valid"
       THEN IF output_writable
            THEN RenderPass("generate_filled_image_with_coordinate_file",
                            PositionedPass(filled_schema, coordinate_file.content,
                                           image_size),
                            coordinate_file.content, canvas)
            ELSE /\ CallEffect("generate_filled_image_with_coordinate_file",
                               PositionedThenEstimatedPass(filled_schema,
                                                           coordinate_file.content,
                                                           image_size),
                               coordinate_file.content, canvas, 2, TRUE,
                               OutputPath("filled_", output_path,
                                          original_image_path))
                 /\ UNCHANGED <<field_coordinates, coordinate_file>>
                 /\ UNCHANGED <<workflow_vars, extract_vars, conversation_vars>>
       ELSE RenderPass("generate_filled_image_with_coordinate_file",
                       EstimatedPass(filled_schema, image_size), <<>>, canvas)

\* the trace of the pass a workflow renders with: the coordinate pass when the
\* map is non-empty and the estimated pass otherwise
FormPass(schema, coords, size) ==
    IF coords # <<>> THEN PositionedPass(schema, coords, size)
                     ELSE EstimatedPass(schema, size)

\* WebSocketSpeechFormFiller.generate_filled_form: a new generator on the
\* original image; its except clause turns a failed save into an error result
GenerateFilledForm ==
    /\ calls < MaxCalls
    /\ CallEffect("generate_filled_form",
                  FormPass(filled_schema, field_coordinates, image_size),
                  field_coordinates, <<>>, 1, FALSE,
                  OutputPath("filled_", NoPath,
                             IF workflow.op = "none" THEN original_image_path
                                                     ELSE workflow.image))
    /\ UNCHANGED <<field_coordinates, coordinate_file>>
    /\ UNCHANGED <<workflow_vars, extract_vars, conversation_vars>>

----------------------------------------------------------------------------
(* CoordinateExtractor.extract_field_coordinates.  A quotient of numbers is  *)
(* kept as the fraction num / den.                                           *)

Ratio(num, den) == [num |-> num, den |-> den]

\* polygon[i] for i in range(0, len(polygon), 2)
x_coords(polygon) == [k \in 1..((Len(polygon) + 1) \div 2) |-> polygon[2 * k - 1]]

\* polygon[i + 1] for i in range(0, len(polygon), 2)
y_coords(polygon) == [k \in 1..((Len(polygon) + 1) \div 2) |-> polygon[2 * k]]

RECURSIVE sum(_)
sum(numbers) == IF numbers = <<>> THEN 0 ELSE Head(numbers) + sum(Tail(numbers))

RECURSIVE min(_)
min(numbers) ==
    IF Len(numbers) = 1 THEN numbers[1]
    ELSE LET m == min(Tail(numbers)) IN IF numbers[1] < m THEN numbers[1] ELSE m

RECURSIVE max(_)
max(numbers) ==
    IF Len(numbers) = 1 THEN numbers[1]
    ELSE LET m == max(Tail(numbers)) IN IF numbers[1] > m THEN numbers[1] ELSE m

\* the centre of the polygon's bounding box
BoxCentre(polygon) ==
    << Ratio(min(x_coords(polygon)) + max(x_coords(polygon)), 2),
       Ratio(min(y_coords(polygon)) + max(y_coords(polygon)), 2) >>

\* center_x = sum(x_coords) / len(x_coords), center_y likewise
Centre(polygon) ==
    << Ratio(sum(x_coords(polygon)), Len(x_coords(polygon))),
       Ratio(sum(y_coords(polygon)), Len(y_coords(polygon))) >>

\* normalized_x = center_x / page_width, normalized_y = center_y / page_height
Normalized(centre, page_width, page_height) ==
    << Ratio(centre[1].num, centre[1].den * page_width),
       Ratio(centre[2].num, centre[2].den * page_height) >>

field_patterns ==
    << [type |-> "name",          patterns |-> <<"name", "legal name", "business name">>],
       [type |-> "address",       patterns |-> <<"address", "street address", "business address">>],
       [type |-> "city",          patterns |-> <<"city", "town">>],
       [type |-> "state",         patterns |-> <<"state", "province">>],
       [type |-> "zip",           patterns |-> <<"zip", "postal", "zip code", "postal code">>],
       [type |-> "ssn",           patterns |-> <<"ssn", "social security", "social security number">>],
       [type |-> "ein",           patterns |-> <<"ein", "employer identification", "employer id">>],
       [type |-> "business_name", patterns |-> <<"business name", "company name", "employer name">>],
       [type |-> "account_number", patterns |-> <<"account number", "account #">>],
       [type |-> "date",          patterns |-> <<"date", "signature date">>],
       [type |-> "signature",     patterns |-> <<"signature", "sign here">>] >>

\* the value of _identify_field_label when no pattern is in the content
NoLabel == ""

_identify_field_label(content) ==
    LET Hit(entry) == HasKeyword(entry.patterns, lower(content))
        k == FirstIndex(field_patterns, Hit)
    IN IF k = 0 THEN NoLabel ELSE field_patterns[k].type

\* field_coordinates[field_label] = (normalized_x, normalized_y)
Put(map, label, xy) ==
    LET Same(entry) == entry.label = label
        k == FirstIndex(map, Same)
    IN IF k = 0 THEN Append(map, [label |-> label, xy |-> xy])
       ELSE [map EXCEPT ![k].xy = xy]

\* one iteration of either loop of extract_field_coordinates; element n of
\* the analysis is a paragraph's first bounding region or a line of the page
ExtractElement(acc, e, n, page_width, page_height) ==
    IF acc.raised \/ strip(e.content) = "" \/ Len(e.polygon) < 4 THEN acc
    ELSE IF page_width = 0 \/ page_height = 0
    THEN [acc EXCEPT !.raised = TRUE]        \* ZeroDivisionError
    ELSE LET point == Normalized(Centre(e.polygon), page_width, page_height)
             field_label == _identify_field_label(strip(e.content))
         IN IF field_label = NoLabel THEN acc
            ELSE [acc EXCEPT
                    !.field_coordinates = Put(@, field_label, point),
                    !.stored = Append(@, [element |-> n, label |-> field_label,
                                          xy |-> point])]

RECURSIVE ExtractFrom(_, _, _, _, _)
ExtractFrom(acc, elements, n, page_width, page_height) ==
    IF n > Len(elements) THEN acc
    ELSE ExtractFrom(ExtractElement(acc, elements[n], n, page_width, page_height),
                     elements, n + 1, page_width, page_height)

\* the paragraphs of the analysis, then the lines of its first page
Elements(analysis) ==
    IF analysis.pages = <<>> THEN <<>>
    ELSE analysis.paragraphs \o analysis.pages[1].lines

\* extract_field_coordinates(analysis_result): the map returned, the points
\* stored on the way, and whether the call raised instead of returning
extract_field_coordinates(analysis) ==
    LET start == [op |-> "extract_field_coordinates", raised |-> FALSE,
                  field_coordinates |-> <<>>, stored |-> <<>>, openai |-> "none"]
    IN IF analysis.pages = <<>> THEN start
       ELSE ExtractFrom(start, Elements(analysis), 1,
                        analysis.pages[1].width, analysis.pages[1].height)

\* the loop over field_coordinates.items() of _openai_field_mapping: an entry
\* that is a list of two numbers is divided by the page dimensions
RECURSIVE NormalizedReply(_, _, _, _)
NormalizedReply(acc, mapping, page_width, page_height) ==
    IF mapping = <<>> THEN acc
    ELSE LET entry == Head(mapping) IN
         NormalizedReply(
             IF Len(entry.coords) = 2
             THEN Put(acc, entry.field,
                      <<Ratio(entry.coords[1], page_width),
                        Ratio(entry.coords[2], page_height)>>)
             ELSE acc,
             Tail(mapping), page_width, page_height)

\* whether the try block of _openai_field_mapping raises: the request fails,
\* json.loads rejects the reply, or a coordinate is divided by a zero page
\* dimension
MappingFails(reply, page_width, page_height) ==
    \/ reply.kind \in {"api_error", "unparseable"}
    \/ /\ \E i \in 1..Len(reply.mapping) : Len(reply.mapping[i].coords) = 2
       /\ (page_width = 0 \/ page_height = 0)

\* _openai_field_mapping(text_elements, page_width, page_height): the except
\* clause evaluates extract_field_coordinates(analysis_result), and
\* analysis_result is bound neither in the method nor in the module, so the
\* clause raises NameError
_openai_field_mapping(reply, page_width, page_height) ==
    IF MappingFails(reply, page_width, page_height)
    THEN [op |-> "get_coordinate_mapping", raised |-> TRUE,
          field_coordinates |-> <<>>, stored |-> <<>>, openai |-> reply.kind]
    ELSE [op |-> "get_coordinate_mapping", raised |-> FALSE,
          field_coordinates |-> NormalizedReply(<<>>, reply.mapping,
                                                page_width, page_height),
          stored |-> <<>>, openai |-> reply.kind]

\* extract_field_coordinates_with_openai(analysis_result): {} without pages,
\* else the mapping OpenAI makes of the text elements of the first page
extract_field_coordinates_with_openai(analysis, reply) ==
    IF analysis.pages = <<>>
    THEN [op |-> "get_coordinate_mapping", raised |-> FALSE,
          field_coordinates |-> <<>>, stored |-> <<>>, openai |-> "none"]
    ELSE _openai_field_mapping(reply, analysis.pages[1].width,
                               analysis.pages[1].height)

\* HardcodedDataManager.find_hardcoded_data: the entry under the file hash,
\* else under the filename, else under the filename without extension;
\* <<entry>> when found and <<>> for None
find_hardcoded_data(data, image) ==
    LET ByHash(e) == e.key = image.hash
        ByName(e) == e.key = image.name
        ByStem(e) == e.key = image.stem
        h == FirstIndex(data, ByHash)
        n == FirstIndex(data, ByName)
        t == FirstIndex(data, ByStem)
    IN IF h # 0 THEN <<data[h]>>
       ELSE IF n # 0 THEN <<data[n]>>
       ELSE IF t # 0 THEN <<data[t]>>
       ELSE <<>>

\* HardcodedDataManager.apply_hardcoded_coordinates
apply_hardcoded_coordinates(data, original_coordinates, image) ==
    LET hardcoded_data == find_hardcoded_data(data, image) IN
    IF hardcoded_data = <<>> THEN original_coordinates
    ELSE IF hardcoded_data[1].coordinates # <<>> THEN hardcoded_data[1].coordinates
    ELSE original_coordinates

\* self.loaded_data[key] = data
Store(data, key, file) ==
    LET Same(e) == e.key = key
        k == FirstIndex(data, Same)
        entry == [key |-> key, coordinates |-> file.coordinates,
                  form_title |-> file.form_title, file |-> file.stem]
    IN IF k = 0 THEN Append(data, entry) ELSE [data EXCEPT ![k] = entry]

\* one iteration of _load_all_data: the file's data under its metadata hash
\* and filename when they are there, and under the name of the JSON file
LoadFile(data, file) ==
    LET by_hash == IF file.file_hash # "" THEN Store(data, file.file_hash, file)
                                          ELSE data
        by_name == IF file.filename # "" THEN Store(by_hash, file.filename, file)
                                         ELSE by_hash
    IN Store(by_name, file.stem, file)

\* _load_all_data over the files in the order glob yields them; loaded_data
\* is not cleared first
RECURSIVE _load_all_data(_, _)
_load_all_data(data, files) ==
    IF files = <<>> THEN data
    ELSE _load_all_data(LoadFile(data, Head(files)), Tail(files))

\* the orders in which data_dir.glob("*.json") can yield the files: the
\* order of directory entries is the file system's
GlobOrders(dir) ==
    { q \in [1..Cardinality(dir) -> dir] :
         \A i, j \in 1..Cardinality(dir) : q[i] = q[j] => i = j }

\* re.sub(r'[^a-zA-Z0-9_-]', '_', title)
RECURSIVE safe_title(_)
safe_title(title) ==
    IF title = "" THEN ""
    ELSE LET c == Char(title, 1)
             Kept == c \in {"_", "-", "0", "1", "2", "3", "4", "5", "6", "7", "8", "9"}
                     \/ LowerChar(c) # c
                     \/ c \in {"a", "b", "c", "d", "e", "f", "g", "h", "i", "j", "k",
                               "l", "m", "n", "o", "p", "q", "r", "s", "t", "u", "v",
                               "w", "x", "y", "z"}
         IN (IF Kept THEN c ELSE "_") \o safe_title(Tail1(title))

\* the name, without ".json", of the file create_hardcoded_entry writes
EntryStem(image, form_title) ==
    safe_title(IF form_title = "" THEN "custom" ELSE form_title)
    \o "_" \o SubSeq(image.hash, 1, IF Len(image.hash) < 8 THEN Len(image.hash) ELSE 8)

\* HardcodedDataManager.create_hardcoded_entry(image_path, schema, coordinates,
\* hardcoded_values, form_title): writes the entry's file, replacing a file of
\* the same name, and reloads every file of the directory
CreateHardcodedEntry(image, coords, form_title) ==
    LET stem == EntryStem(image, form_title)
        file == DataFile(stem, image.hash, image.name,
                         IF form_title = "" THEN "Custom Form" ELSE form_title,
                         coords)
        written == { f \in data_dir : f.stem # stem } \cup {file}
    IN
    /\ Cardinality(data_dir) < MaxEntries \/ \E f \in data_dir : f.stem = stem
    /\ data_dir' = written
    /\ \E files \in GlobOrders(written) :
          loaded_data' = _load_all_data(loaded_data, files)
    /\ created' = [image |-> image.name, coordinates |-> coords,
                   form_title |-> file.form_title, stem |-> stem]
    /\ UNCHANGED <<workflow, persisted_for>>
    /\ UNCHANGED <<render_vars, extract_vars, conversation_vars>>

\* WebSocketSpeechFormFiller.run_workflow: the schema, then the coordinates
\* from get_coordinate_mapping(image_path); the render follows the conversation
RunWorkflow(image) ==
    /\ calls < MaxCalls
    /\ \E m \in AnalysisOutcomes(image) :
          /\ field_coordinates' = m
          /\ workflow' =
                [op |-> "run_workflow", image |-> image.name,
                 file_state |-> coordinate_file.state, file_owner |-> persisted_for,
                 persisted |-> apply_hardcoded_coordinates(loaded_data, <<>>, image),
                 from_file |-> FALSE, analysed |-> TRUE, coords |-> m,
                 raised |-> FALSE]
    /\ calls' = calls + 1
    /\ UNCHANGED <<filled_schema, schema_before, coordinate_file, image_size, canvas,
                   last_call, prev_call, adjustments, output_writable, output_path>>
    /\ UNCHANGED <<persisted_for, loaded_data, data_dir, created>>
    /\ UNCHANGED <<extract_vars, conversation_vars>>

\* complete_conversation of the workflow that run_workflow started
CompleteConversation ==
    /\ workflow.op = "run_workflow"
    /\ GenerateFilledForm

\* real_form_workflow(input_image_path): step 2 reads "field_coordinates.json"
\* of the working directory, step 4 renders on a new generator inside a try
\* whose except clause returns None, and writes the map back when it is not empty
RealFormWorkflow(image) ==
    LET loaded == IF coordinate_file.state = "valid" THEN coordinate_file.content
                                                     ELSE <<>>
        Run(analysed, m, raised) ==
            [op |-> "real_form_workflow", image |-> image.name,
             file_state |-> coordinate_file.state, file_owner |-> persisted_for,
             persisted |-> loaded, from_file |-> loaded # <<>>,
             analysed |-> analysed, coords |-> m, raised |-> raised]
    IN
    /\ calls < MaxCalls
    /\ IF coordinate_file.state = "missing"
       THEN \* `if not field_coordinates` reads a local no branch has bound
            /\ workflow' = Run(FALSE, <<>>, TRUE)
            /\ calls' = calls + 1
            /\ UNCHANGED <<filled_schema, schema_before, field_coordinates,
                           coordinate_file, image_size, canvas, last_call, prev_call,
                           adjustments, output_writable, output_path, persisted_for>>
       ELSE \E m \in (IF loaded = <<>> THEN AnalysisOutcomes(image) ELSE {loaded}) :
            /\ workflow' = Run(loaded = <<>>, m, FALSE)
            /\ field_coordinates' = m
            /\ CallEffect("real_form_workflow",
                          FormPass(filled_schema, m, image_size), m, <<>>, 1, FALSE,
                          OutputPath("completed_", output_path, image.name))
            /\ IF output_writable /\ m # <<>>
               THEN /\ coordinate_file' = ValidFile(m)
                    /\ persisted_for' = image.name
               ELSE UNCHANGED <<coordinate_file, persisted_for>>
    /\ UNCHANGED <<loaded_data, data_dir, created>>
    /\ UNCHANGED <<extract_vars, conversation_vars>>

\* CoordinateExtractor.extract_field_coordinates on the analysis at hand
ExtractFieldCoordinates ==
    /\ extraction.op = "none"
    /\ extraction' = extract_field_coordinates(analysis_result)
    /\ UNCHANGED analysis_result
    /\ UNCHANGED <<render_vars, workflow_vars, conversation_vars>>

\* CoordinateExtractor.get_coordinate_mapping on the analysis at hand, which
\* lets the exceptions of the mapping through
GetCoordinateMapping ==
    /\ extraction.op = "none"
    /\ \E reply \in OpenAIReplies :
          extraction' = extract_field_coordinates_with_openai(analysis_result, reply)
    /\ UNCHANGED analysis_result
    /\ UNCHANGED <<render_vars, workflow_vars, conversation_vars>>

\* the file's map with the first last-name key moved down
AdjustedMap(coords) ==
    LET IsLast(entry) == IsLastName(entry.label)
        k == FirstIndex(coords, IsLast)
    IN IF k = 0 THEN coords
       ELSE [coords EXCEPT ![k].xy = <<coords[k].xy[1], coords[k].xy[2] + LastNameShift>>]

\* adjust_last_name_coordinates(coordinates_file)
AdjustLastNameCoordinates ==
    /\ adjustments < MaxAdjustments
    /\ adjustments' = adjustments + 1
    /\ coordinate_file' =
          IF coordinate_file.state = "valid"
          THEN ValidFile(AdjustedMap(coordinate_file.content))
          ELSE coordinate_file
    /\ UNCHANGED <<filled_schema, schema_before, field_coordinates, image_size,
                   canvas, last_call, prev_call, calls, output_writable, output_path>>
    /\ UNCHANGED <<workflow_vars, extract_vars, conversation_vars>>

----------------------------------------------------------------------------
(* WebSocketSpeechFormFiller: languages and the conversation.  The frames of *)
(* ask_next_question that have not returned are kept as a stack; an          *)
(* exception travels down the stack one frame at a time.                     *)

\* self.user_language = None
NoLanguage == ""

\* self.available_languages
available_languages ==
    << [key |-> "english",   name |-> "English"],
       [key |-> "ukrainian", name |-> "Ukrainian"],
       [key |-> "hindi",     name |-> "Hindi"],
       [key |-> "chinese",   name |-> "Chinese"],
       [key |-> "spanish",   name |-> "Spanish"],
       [key |-> "urdu",      name |-> "Urdu"] >>

\* language in self.available_languages
IsAvailable(language) ==
    LET Is(entry) == entry.key = language IN AnyOf(available_languages, Is)

\* the languages language_feature_docs.py lists
DocumentedLanguages == { "english", "ukrainian", "amharic" }

\* arguments of set_user_language
LanguageArguments == { "english", "Ukrainian", "amharic", "klingon" }

NoLanguageCall ==
    [op |-> "none", language |-> NoLanguage, returned |-> FALSE, raised |-> FALSE,
     engines |-> TRUE]

\* self.available_languages[self.user_language] raises KeyError
LookupRaises(language) == language # "english" /\ ~IsAvailable(language)

\* speak_in_user_language(text): speaks the text, untranslated for English;
\* speak raises when ElevenLabs and then pyttsx3 both fail
speak_in_user_language(language, engines) ==
    [op |-> "speak_in_user_language", language |-> language, returned |-> FALSE,
     raised |-> LookupRaises(language) \/ ~engines, engines |-> engines]

\* translate_user_response_to_english(response); translate_text catches its
\* own exceptions
translate_user_response_to_english(language) ==
    [op |-> "translate_user_response_to_english", language |-> language,
     returned |-> FALSE, raised |-> LookupRaises(language), engines |-> TRUE]

\* set_user_language(language)
SetUserLanguage(language) ==
    /\ conversation.pc = "idle"
    /\ user_language' = IF IsAvailable(lower(language)) THEN lower(language)
                                                        ELSE "english"
    /\ language_call' = [op |-> "set_user_language", language |-> language,
                         returned |-> IsAvailable(lower(language)),
                         raised |-> FALSE, engines |-> TRUE]
    /\ UNCHANGED <<conversation, app>>
    /\ UNCHANGED <<render_vars, workflow_vars, extract_vars>>

\* form_filler.user_language = language, as the documentation's third method
AssignUserLanguage(language) ==
    /\ conversation.pc = "idle"
    /\ user_language' = language
    /\ language_call' = [op |-> "assign", language |-> language, returned |-> FALSE,
                         raised |-> FALSE, engines |-> TRUE]
    /\ UNCHANGED <<conversation, app>>
    /\ UNCHANGED <<render_vars, workflow_vars, extract_vars>>

SpeakInUserLanguage ==
    /\ conversation.pc = "idle"
    /\ \E engines \in BOOLEAN :
          language_call' = speak_in_user_language(user_language, engines)
    /\ UNCHANGED <<user_language, conversation, app>>
    /\ UNCHANGED <<render_vars, workflow_vars, extract_vars>>

TranslateUserResponseToEnglish ==
    /\ conversation.pc = "idle"
    /\ language_call' = translate_user_response_to_english(user_language)
    /\ UNCHANGED <<user_language, conversation, app>>
    /\ UNCHANGED <<render_vars, workflow_vars, extract_vars>>

\* self.required_fields: every field of the schema is required
required_fields == filled_schema.fields

NoConversation ==
    [pc |-> "idle", current_field_index |-> 0, is_conversation_active |-> FALSE,
     stack |-> <<>>, asked |-> <<>>, raised |-> {}, completes |-> 0, generates |-> 0]

\* the languages select_language can leave in user_language
SelectableLanguages == { "english", "ukrainian" }

\* what follows `self.current_field_index += 1`, in the try block and in the
\* except clause alike
NextCall(index) ==
    IF index < Len(required_fields) THEN "ask_next_question" ELSE "finish_conversation"

\* the except clause of ask_next_question in the frame that asked `field`
Handler(c, field, asked) ==
    [c EXCEPT !.current_field_index = @ + 1,
              !.stack = Append(@, [field |-> field, at |-> "except"]),
              !.asked = asked,
              !.raised = @ \cup {field},
              !.pc = NextCall(c.current_field_index + 1)]

\* start_conversation(): the language is selected when none is set; without
\* required fields it speaks and returns False; else it resets the index,
\* speaks the welcome and makes the first call of ask_next_question
StartConversation ==
    /\ conversation.pc = "idle"
    /\ \E language \in (IF user_language = NoLanguage THEN SelectableLanguages
                                                      ELSE {user_language}),
          engines \in BOOLEAN :
          /\ user_language' = language
          /\ conversation' =
                IF required_fields = <<>>
                THEN [conversation EXCEPT
                        !.pc = IF speak_in_user_language(language, engines).raised
                               THEN "raised" ELSE "returned"]
                ELSE [conversation EXCEPT
                        !.is_conversation_active = TRUE,
                        !.current_field_index = 0,
                        !.pc = IF speak_in_user_language(language, engines).raised
                               THEN "raised" ELSE "ask_next_question"]
    /\ UNCHANGED <<language_call, app>>
    /\ UNCHANGED <<render_vars, workflow_vars, extract_vars>>

\* what asking one field can come to: the lines before the try block raise
\* (the options are not strings); the question cannot be made; the question is
\* emitted and speaking or listening raises; the user answers; the user is
\* not heard and the field is left empty
QuestionOutcomes(field) ==
    IF field.options = "numbers" THEN {"raised_before_try"}
    ELSE {"question_raised", "answer_raised", "answered", "unanswered"}

\* ask_next_question(): one frame, up to its call of ask_next_question or
\* finish_conversation
AskNextQuestion ==
    LET c == conversation
        i == c.current_field_index
    IN
    /\ c.pc = "ask_next_question"
    /\ IF ~c.is_conversation_active \/ i >= Len(required_fields)
       THEN /\ conversation' = [c EXCEPT !.pc = "finish_conversation"]
            /\ UNCHANGED filled_schema
       ELSE \E outcome \in QuestionOutcomes(required_fields[i + 1]) :
               CASE outcome = "raised_before_try" ->
                      /\ conversation' = [c EXCEPT !.pc = "raising",
                                                   !.raised = @ \cup {i}]
                      /\ UNCHANGED filled_schema
                 [] outcome = "question_raised" ->
                      /\ conversation' = Handler(c, i, c.asked)
                      /\ UNCHANGED filled_schema
                 [] outcome = "answer_raised" ->
                      /\ conversation' = Handler(c, i, Append(c.asked, i))
                      /\ UNCHANGED filled_schema
                 [] outcome = "answered" ->
                      /\ conversation' =
                            [c EXCEPT !.current_field_index = i + 1,
                                      !.stack = Append(@, [field |-> i, at |-> "try"]),
                                      !.asked = Append(@, i),
                                      !.pc = NextCall(i + 1)]
                      /\ filled_schema' =
                            [filled_schema EXCEPT !.fields[i + 1].value = "Ann"]
                 [] outcome = "unanswered" ->
                      /\ conversation' =
                            [c EXCEPT !.current_field_index = i + 1,
                                      !.stack = Append(@, [field |-> i, at |-> "try"]),
                                      !.asked = Append(@, i),
                                      !.pc = NextCall(i + 1)]
                      /\ UNCHANGED filled_schema
    /\ UNCHANGED <<schema_before, field_coordinates, coordinate_file, image_size,
                   canvas, last_call, prev_call, calls, adjustments,
                   output_writable, output_path>>
    /\ UNCHANGED <<user_language, language_call, app>>
    /\ UNCHANGED <<workflow_vars, extract_vars>>

\* finish_conversation(): the completion messages are spoken, and speaking can
\* raise; then conversation_complete is emitted and generate_filled_form
\* renders, catching its own exceptions, and every frame returns
FinishConversation ==
    LET c == conversation IN
    /\ c.pc = "finish_conversation"
    /\ \/ /\ conversation' = [c EXCEPT !.is_conversation_active = FALSE,
                                       !.pc = "raising"]
          /\ UNCHANGED render_vars
       \/ /\ conversation' = [c EXCEPT !.is_conversation_active = FALSE,
                                       !.completes = @ + 1,
                                       !.generates = @ + 1,
                                       !.stack = <<>>,
                                       !.pc = "returned"]
          /\ CallEffect("generate_filled_form",
                        FormPass(filled_schema, field_coordinates, image_size),
                        field_coordinates, <<>>, 1, FALSE,
                        OutputPath("filled_", NoPath, original_image_path))
          /\ UNCHANGED <<field_coordinates, coordinate_file>>
    /\ UNCHANGED <<user_language, language_call, app>>
    /\ UNCHANGED <<workflow_vars, extract_vars>>

\* an exception leaving a call: the frame that made the call in its try block
\* runs its except clause, which adds one to the index and calls again; the
\* frame that made it in its except clause is left; with no frame left the
\* exception leaves start_conversation
PropagateException ==
    LET c == conversation
        depth == Len(c.stack)
    IN
    /\ c.pc = "raising"
    /\ conversation' =
          IF depth = 0 THEN [c EXCEPT !.pc = "raised"]
          ELSE IF c.stack[depth].at = "try"
          THEN [c EXCEPT !.stack[depth].at = "except",
                         !.current_field_index = @ + 1,
                         !.pc = NextCall(c.current_field_index + 1)]
          ELSE [c EXCEPT !.stack = SubSeq(@, 1, depth - 1)]
    /\ UNCHANGED <<user_language, language_call, app>>
    /\ UNCHANGED <<render_vars, workflow_vars, extract_vars>>

----------------------------------------------------------------------------
(* app.py: the socket events, the one WebSocketFormFiller and the threads    *)
(* that run process_form_workflow.  A form filler is named by the number of  *)
(* the thread that constructed it.                                           *)

\* session ids of the events; the first is the default of data.get
SessionIds == { "default", "s2" }

\* file_path of a start_processing event: an uploaded file, or a path that
\* does not exist
FilePaths == { "uploads/form.png", "uploads/missing.png" }

ExistingPaths == { "uploads/form.png" }

\* self.current_session = None, self.form_filler = None
NoSession == ""

NoFormFiller == 0

\* ws_form_filler = WebSocketFormFiller(socketio): no thread, no handler busy
IdleApp ==
    [current_session |-> NoSession, form_filler |-> NoFormFiller,
     threads |-> <<>>, handlers |-> <<>>, emitted |-> "connected"]

\* handle_start_processing(data): a path that is missing or does not exist is
\* answered with an error; else a daemon thread is started on
\* process_form_workflow and processing_started is emitted
HandleStartProcessing(file_path, session_id) ==
    /\ Len(app.threads) < MaxThreads
    /\ app' = IF file_path \notin ExistingPaths
              THEN [app EXCEPT !.emitted = "error"]
              ELSE [app EXCEPT
                      !.threads = Append(@, [session_id |-> session_id,
                                             file_path |-> file_path,
                                             pc |-> "started"]),
                      !.emitted = "processing_started"]
    /\ UNCHANGED <<user_language, language_call, conversation>>
    /\ UNCHANGED <<render_vars, workflow_vars, extract_vars>>

\* process_form_workflow up to the call of run_workflow: the session is
\* recorded and a new form filler replaces the one there was; a constructor
\* that raises goes to the except clause and the finally block
BeginWorkflow(t) ==
    /\ app.threads[t].pc = "started"
    /\ \E constructed \in BOOLEAN :
          app' = IF constructed
                 THEN [app EXCEPT !.current_session = app.threads[t].session_id,
                                  !.form_filler = t,
                                  !.threads[t].pc = "run_workflow"]
                 ELSE [app EXCEPT !.current_session = NoSession,
                                  !.threads[t].pc = "done",
                                  !.emitted = "error"]
    /\ UNCHANGED <<user_language, language_call, conversation>>
    /\ UNCHANGED <<render_vars, workflow_vars, extract_vars>>

\* process_form_workflow from the return of run_workflow, which holds the
\* whole conversation: the finally block clears the session
EndWorkflow(t) ==
    /\ app.threads[t].pc = "run_workflow"
    /\ app' = [app EXCEPT !.current_session = NoSession,
                          !.threads[t].pc = "done"]
    /\ UNCHANGED <<user_language, language_call, conversation>>
    /\ UNCHANGED <<render_vars, workflow_vars, extract_vars>>

\* handle_start_conversation(data): with the event's session current and a
\* form filler there, the handler calls its start_conversation
HandleStartConversation(session_id) ==
    /\ Len(app.handlers) < MaxHandlers
    /\ app' = IF app.current_session = session_id /\ app.form_filler # NoFormFiller
              THEN [app EXCEPT !.handlers = Append(@, [form_filler |-> app.form_filler,
                                                       pc |-> "start_conversation"])]
              ELSE [app EXCEPT !.emitted = "error"]
    /\ UNCHANGED <<user_language, language_call, conversation>>
    /\ UNCHANGED <<render_vars, workflow_vars, extract_vars>>

\* start_conversation returns to the handler that called it
EndHandlerConversation(h) ==
    /\ app.handlers[h].pc = "start_conversation"
    /\ app' = [app EXCEPT !.handlers[h].pc = "done"]
    /\ UNCHANGED <<user_language, language_call, conversation>>
    /\ UNCHANGED <<render_vars, workflow_vars, extract_vars>>

----------------------------------------------------------------------------
(* Specifications *)

\* no workflow has run, nothing is loaded from ./hardcoded_data
IdleWorkflow ==
    /\ workflow = NoWorkflow
    /\ persisted_for = "none"
    /\ loaded_data = <<>>
    /\ data_dir = {}
    /\ created = NoEntry

\* the extractor has been handed nothing
IdleExtractor ==
    /\ analysis_result = NoAnalysis
    /\ extraction = NoExtraction

\* no language chosen, no language method called, no conversation started
IdleConversation ==
    /\ user_language = NoLanguage
    /\ language_call = NoLanguageCall
    /\ conversation = NoConversation
    /\ app = IdleApp

InitCommon ==
    /\ IdleConversation
    /\ schema_before = filled_schema
    /\ image_size \in ImageSizes
    /\ canvas = <<>>
    /\ last_call = NoCall
    /\ prev_call = NoCall
    /\ calls = 0
    /\ adjustments = 0

\* a generator constructed on the image, a schema of any shape and the
\* extracted coordinate map; nothing is persisted
Init ==
    /\ filled_schema \in Schemas
    /\ field_coordinates \in SeqsUpTo(RenderKeys, MaxRenderKeys)
    /\ coordinate_file = MissingFile
    /\ output_writable \in BOOLEAN
    /\ output_path \in OutputPaths
    /\ InitCommon
    /\ IdleWorkflow
    /\ IdleExtractor

Next ==
    \/ GenerateFilledImage
    \/ GenerateFilledImageWithCoordinates
    \/ GenerateFilledForm

Spec == Init /\ [][Next]_vars

\* one field put to the matcher against every coordinate map
InitMatch ==
    /\ filled_schema \in { FlatSchema(<<f>>) : f \in MatchFields }
    /\ field_coordinates \in SeqsUpTo(CoordKeys, MaxKeys)
    /\ coordinate_file = MissingFile
    /\ output_writable = TRUE
    /\ output_path = "uploads/test_filled_form.jpg"
    /\ InitCommon
    /\ IdleWorkflow
    /\ IdleExtractor

NextMatch == GenerateFilledImageWithCoordinates

MatchSpec == InitMatch /\ [][NextMatch]_vars

\* a flat schema and its extracted map, which is persisted, not persisted, or
\* persisted and unreadable, and an output path that can or cannot be written
InitFile ==
    /\ filled_schema \in { FlatSchema(fs) : fs \in SeqsUpTo(RenderFields, MaxFields) }
    /\ field_coordinates \in SeqsUpTo(RenderKeys, MaxRenderKeys)
    /\ coordinate_file \in {MissingFile, InvalidFile, ValidFile(field_coordinates)}
    /\ output_writable \in BOOLEAN
    /\ output_path = NoPath
    /\ InitCommon
    /\ IdleWorkflow
    /\ IdleExtractor

NextFile ==
    \/ GenerateFilledImageWithCoordinateFile
    \/ AdjustLastNameCoordinates

FileSpec == InitFile /\ [][NextFile]_vars

\* the working directory before a workflow runs: no coordinate file, an
\* unreadable one, one holding {} or one holding a hand-edited map; the schema
\* as the conversation filled it
InitWorkflow ==
    /\ filled_schema \in { FlatSchema(<<f>>) : f \in RenderFields }
    /\ field_coordinates = <<>>
    /\ coordinate_file \in {MissingFile, InvalidFile, ValidFile(<<>>), ValidFile(ManualMap)}
    /\ output_writable \in BOOLEAN
    /\ output_path = NoPath
    /\ InitCommon
    /\ workflow = NoWorkflow
    /\ persisted_for = "none"
    /\ loaded_data \in HardcodedStores
    /\ data_dir = {}
    /\ created = NoEntry
    /\ IdleExtractor

NextWorkflow ==
    \/ \E image \in Images : RealFormWorkflow(image)
    \/ \E image \in Images : RunWorkflow(image)
    \/ CompleteConversation

WorkflowSpec == InitWorkflow /\ [][NextWorkflow]_vars

\* a manager constructed on ./hardcoded_data, which loads the files there
InitHardcoded ==
    /\ filled_schema = FlatSchema(<<>>)
    /\ field_coordinates = <<>>
    /\ coordinate_file = MissingFile
    /\ output_writable = TRUE
    /\ output_path = NoPath
    /\ InitCommon
    /\ workflow = NoWorkflow
    /\ persisted_for = "none"
    /\ data_dir \in InitialDataDirs
    /\ \E files \in GlobOrders(data_dir) : loaded_data = _load_all_data(<<>>, files)
    /\ created = NoEntry
    /\ IdleExtractor

NextHardcoded ==
    \E image \in Images, form_title \in FormTitles :
        \E coords \in {<<>>, ManualMap, LayoutMap(image)} :
            CreateHardcodedEntry(image, coords, form_title)

HardcodedSpec == InitHardcoded /\ [][NextHardcoded]_vars

\* a form filler whose run_workflow has read the schema and the coordinates
\* of the form: every field is required and none has a value yet
InitConversation ==
    /\ filled_schema \in { FlatSchema(fs) :
                              fs \in SeqsUpTo(ConversationFields, MaxRequired) }
    /\ field_coordinates \in SeqsUpTo(RenderKeys, 1)
    /\ coordinate_file = MissingFile
    /\ output_writable = TRUE
    /\ output_path = NoPath
    /\ InitCommon
    /\ IdleWorkflow
    /\ IdleExtractor

NextConversation ==
    \/ \E language \in LanguageArguments : SetUserLanguage(language)
    \/ \E language \in DocumentedLanguages : AssignUserLanguage(language)
    \/ SpeakInUserLanguage
    \/ TranslateUserResponseToEnglish
    \/ StartConversation
    \/ AskNextQuestion
    \/ FinishConversation
    \/ PropagateException

ConversationSpec == InitConversation /\ [][NextConversation]_vars

\* the server after start-up: ws_form_filler constructed, no event handled
InitApp ==
    /\ filled_schema = FlatSchema(<<>>)
    /\ field_coordinates = <<>>
    /\ coordinate_file = MissingFile
    /\ output_writable = TRUE
    /\ output_path = NoPath
    /\ InitCommon
    /\ IdleWorkflow
    /\ IdleExtractor

NextApp ==
    \/ \E file_path \in FilePaths, session_id \in SessionIds :
          HandleStartProcessing(file_path, session_id)
    \/ \E t \in 1..Len(app.threads) : BeginWorkflow(t)
    \/ \E t \in 1..Len(app.threads) : EndWorkflow(t)
    \/ \E session_id \in SessionIds : HandleStartConversation(session_id)
    \/ \E h \in 1..Len(app.handlers) : EndHandlerConversation(h)

AppSpec == InitApp /\ [][NextApp]_vars

\* an extractor handed the layout analysis of a document
InitExtract ==
    /\ filled_schema = FlatSchema(<<>>)
    /\ field_coordinates = <<>>
    /\ coordinate_file = MissingFile
    /\ output_writable = TRUE
    /\ output_path = NoPath
    /\ InitCommon
    /\ IdleWorkflow
    /\ analysis_result \in AnalysisResults
    /\ extraction = NoExtraction

NextExtract ==
    \/ ExtractFieldCoordinates
    \/ GetCoordinateMapping

ExtractSpec == InitExtract /\ [][NextExtract]_vars

----------------------------------------------------------------------------
(* Vocabulary of the properties *)

image_width == image_size[1]

image_height == image_size[2]

CallDone == last_call.op # "none"

\* the fields the last call iterated, as the caller passed them
CallFields == FlattenedFields(schema_before)

Entries == 1..Len(last_call.trace)

Keys == 1..Len(last_call.coords)

\* key k of the map the last call used equals the text, ignoring case
KeyEquals(k, text) == lower(last_call.coords[k].label) = lower(text)

KeyContainment(k, label) == ContainmentMatch(lower(label), last_call.coords[k].label)

KeyTokenOverlap(k, label) == TokenOverlap(lower(label), last_call.coords[k].label)

\* key k and the label both hold a keyword of one semantic category
KeySameCategory(k, label) ==
    \E t \in 1..Len(semantic_matches) :
        /\ HasKeyword(semantic_matches[t].keywords, lower(label))
        /\ HasKeyword(semantic_matches[t].keywords, lower(last_call.coords[k].label))

\* absent, None, empty or whitespace-only
BlankValue(f) ==
    \/ f.value_kind \in {"absent", "none"}
    \/ \A i \in 1..Len(f.value) : IsSpace(Char(f.value, i))

----------------------------------------------------------------------------
(* Properties of the matcher, under MatchSpec *)

\* C1: when some key of the coordinate map equals the field's label ignoring
\* case, the matcher returns the coordinate of such a key, whatever other keys
\* qualify by containment, token overlap or category and wherever they sit.
C1_ExactMatchWins ==
    CallDone =>
        \A i \in Entries :
            LET e == last_call.trace[i] IN
            (e.drawn /\ \E k \in Keys : KeyEquals(k, e.label))
            => \E k \in Keys : /\ KeyEquals(k, e.label)
                               /\ e.coordinates = last_call.coords[k].xy

\* C1 witness: label "Last Name" against {"Name": (.2,.2), "Last Name": (.1,.1)},
\* the containment key first, returns (.1,.1).
C1_Witness ==
    /\ CallDone
    /\ last_call.coords = << [label |-> "Name", xy |-> <<20, 20>>],
                             [label |-> "Last Name", xy |-> <<10, 10>>] >>
    /\ last_call.trace[1].label = "Last Name"
    /\ last_call.trace[1].coordinates = <<10, 10>>

\* C2 (as claimed): a field labelled "Family Name" matched to (.3,.4) is
\* rendered from the final coordinate (.3,.45), and a field labelled
\* "First Name" matched to (.3,.2) is rendered from (.3,.2).
C2_FamilyNameShifted ==
    CallDone =>
        \A i \in Entries :
            LET e == last_call.trace[i] IN
            /\ (e.label = "Family Name" /\ e.coordinates = <<30, 40>>)
               => /\ e.final = <<30, 45>>
                  /\ e.position = <<30 * image_width, 45 * image_height>>
            /\ (e.label = "First Name" /\ e.coordinates = <<30, 20>>)
               => /\ e.final = <<30, 20>>
                  /\ e.position = <<30 * image_width, 20 * image_height>>

C5_ExactMatchOnName ==
    CallDone =>
        \A i \in Entries :
            LET e == last_call.trace[i]
                f == CallFields[i]
            IN
            ( /\ e.drawn
              /\ f.name # ""
              /\ \A k \in Keys : ~KeyEquals(k, f.label)
              /\ \E k \in Keys : KeyEquals(k, f.name) )
            => \E k \in Keys : /\ KeyEquals(k, f.name)
                               /\ e.coordinates = last_call.coords[k].xy

\* C6: when no key equals the label and none qualifies by containment or token
\* overlap, the matcher returns a key's coordinate only if that key and the
\* label hold a keyword of the same semantic category, and returns one whenever
\* such a key exists; "Zip Code" = "10001" against {"zip": (.3,.6)} is drawn
\* at (.3 * width, .6 * height).
C6_SemanticTier ==
    CallDone =>
        \A i \in Entries :
            LET e == last_call.trace[i] IN
            /\ ( /\ e.drawn
                 /\ \A k \in Keys : /\ ~KeyEquals(k, e.label)
                                    /\ ~KeyContainment(k, e.label)
                                    /\ ~KeyTokenOverlap(k, e.label) )
               => /\ e.coordinates # NoCoordinates
                     => \E k \in Keys : /\ KeySameCategory(k, e.label)
                                        /\ e.coordinates = last_call.coords[k].xy
                  /\ (\E k \in Keys : KeySameCategory(k, e.label))
                     => e.coordinates # NoCoordinates
            /\ ( /\ e.label = "Zip Code"
                 /\ e.value = "10001"
                 /\ last_call.coords = << [label |-> "zip", xy |-> <<30, 60>>] >> )
               => /\ e.drawn
                  /\ e.position = <<30 * image_width, 60 * image_height>>
                  /\ \E n \in 1..Len(canvas) :
                        /\ canvas[n].op = "text"
                        /\ canvas[n].text = "10001"
                        /\ canvas[n].xy = <<30 * image_width, 60 * image_height>>

\* C6 witness: "Legal Entity" against {"Last Four": .., "Business Name": (.6,.3)}:
\* no key equals, contains or shares a token with the label, and the keywords
\* 'legal' and 'business' of the category 'name' give (.6,.3).
C6_Witness ==
    /\ CallDone
    /\ last_call.coords = << [label |-> "Last Four", xy |-> <<50, 50>>],
                             [label |-> "Business Name", xy |-> <<60, 30>>] >>
    /\ last_call.trace[1].label = "Legal Entity"
    /\ \A k \in Keys : /\ ~KeyEquals(k, "Legal Entity")
                       /\ ~KeyContainment(k, "Legal Entity")
                       /\ ~KeyTokenOverlap(k, "Legal Entity")
    /\ last_call.trace[1].coordinates = <<60, 30>>

\* C7: with an empty coordinate map the matcher returns no match for every
\* field, and generate_filled_image_with_coordinates draws each non-empty value
\* in red at the fallback table's position; a label with no table keyword
\* ("Unknown Field" = "X") is drawn at (0.3 * width, 0.85 * height).
C7_EmptyMapFallsBack ==
    (CallDone /\ last_call.op = "generate_filled_image_with_coordinates"
              /\ last_call.coords = <<>>) =>
        \A i \in Entries :
            LET e == last_call.trace[i]
                f == CallFields[i]
            IN
            ~BlankValue(f) =>
               /\ e.coordinates = NoCoordinates
               /\ e.drawn
               /\ e.fill = "red"
               /\ e.position =
                    <<30 * image_width,
                      (IF Contains("name", lower(f.label)) THEN 15
                       ELSE IF Contains("zip", lower(f.label)) THEN 55
                       ELSE 85) * image_height>>
               /\ \E n \in 1..Len(canvas) :
                     /\ canvas[n] = [op |-> "text", xy |-> e.position,
                                     text |-> f.value, colour |-> "red"]
               /\ f.label = "Unknown Field"
                  => e.position = <<30 * image_width, 85 * image_height>>

\* C7 witness: "Unknown Field" = "X" drawn with the empty map.
C7_Witness ==
    /\ CallDone
    /\ last_call.op = "generate_filled_image_with_coordinates"
    /\ last_call.coords = <<>>
    /\ last_call.trace[1].label = "Unknown Field"
    /\ last_call.trace[1].fill = "red"
    /\ last_call.trace[1].position = <<30 * image_width, 85 * image_height>>

----------------------------------------------------------------------------
(* Properties of the render passes, under Spec and FileSpec *)

\* C3 (as claimed): over any sequence of coordinate-file adjustments and render
\* passes, a matched field is rendered at its extracted normalized coordinate
\* with y shifted by 0.05 in total when its lowercased label holds a last-name
\* keyword and by 0 otherwise, x unshifted, then multiplied by the image size.
C3_ShiftedExactlyOnce ==
    CallDone =>
        \A i \in Entries :
            LET e == last_call.trace[i]
                extracted == find_best_coordinate_match(CallFields[i], field_coordinates)
                shift == IF IsLastName(e.label) THEN LastNameShift ELSE 0
            IN
            e.via = "matched" =>
                e.position = <<extracted[1] * image_width,
                               (extracted[2] + shift) * image_height>>

\* C8 (as claimed): in every render path a value is drawn in red whenever its
\* position comes from the fallback table, and in black only when its position
\* comes from a matched coordinate.
C8_RedIffFallback ==
    CallDone =>
        \A i \in Entries :
            LET e == last_call.trace[i] IN
            e.drawn => /\ e.via = "estimated" => e.fill = "red"
                       /\ e.fill = "black" => e.via = "matched"

\* C9: in generate_filled_image and generate_filled_image_with_coordinates a
\* field whose value is absent, None, empty or whitespace-only causes no draw
\* operation, and the remaining fields are still processed: every other field's
\* value is drawn as text.
C9_BlankValuesSkipped ==
    CallDone =>
        /\ Len(last_call.trace) = Len(CallFields)
        /\ \A i \in Entries :
              LET f == CallFields[i] IN
              IF BlankValue(f)
              THEN /\ ~last_call.trace[i].drawn
                   /\ DrawOps(last_call.trace[i]) = <<>>
              ELSE \E n \in 1..Len(canvas) :
                      canvas[n].op = "text" /\ canvas[n].text = f.value
        /\ \A n \in 1..Len(canvas) :
              \E k \in 1..Len(canvas[n].text) : ~IsSpace(Char(canvas[n].text, k))

\* C9 witness: a whitespace-only value ahead of "Doe": nothing is drawn for
\* the first field and the second is drawn.
C9_Witness ==
    /\ CallDone
    /\ Len(CallFields) = 2
    /\ CallFields[1].value = " \t"
    /\ ~last_call.trace[1].drawn
    /\ last_call.trace[2].drawn
    /\ last_call.trace[2].value = "Doe"
    /\ canvas[1].text = "Doe"

\* C10 (as claimed): no generate_* call changes the schema it is given,
\* whatever the schema's shape.
C10_SchemaUnchanged == filled_schema = schema_before

----------------------------------------------------------------------------
(* Properties of repeated calls and of the draw arithmetic, under Spec *)

WithCoordinates == "generate_filled_image_with_coordinates"

\* the fields a call chose and the pixel position it gave each of them
Placement(call) ==
    [i \in 1..Len(call.trace) |->
        [label |-> call.trace[i].label, value |-> call.trace[i].value,
         drawn |-> call.trace[i].drawn, position |-> call.trace[i].position]]

\* C11: when generate_filled_image_with_coordinates runs twice in a row on the
\* same schema object with the same coordinate map, the second run chooses the
\* same sequence of fields as the first and the same pixel position for each.
C11_SecondRunSamePlacement ==
    (last_call.op = WithCoordinates /\ prev_call.op = WithCoordinates)
    => /\ last_call.coords = prev_call.coords
       /\ Placement(last_call) = Placement(prev_call)

\* C11 witness: two runs on a schema whose empty 'fields' list the first run
\* filled from the sections, both placing a matched field.
C11_Witness ==
    /\ last_call.op = WithCoordinates
    /\ prev_call.op = WithCoordinates
    /\ schema_before.has_sections
    /\ schema_before.fields # <<>>
    /\ \E i \in Entries : last_call.trace[i].via = "matched"
    /\ Placement(last_call) = Placement(prev_call)

\* C17: a matched field whose label holds no last-name keyword is drawn at
\* exactly (x * image_width, y * image_height), x and y being the matched
\* coordinate; on a 1000 x 2000 image the coordinate (.25, .5) gives (250, 1000).
C17_PixelPositionIsProduct ==
    CallDone =>
        \A i \in Entries :
            LET e == last_call.trace[i] IN
            (e.via = "matched" /\ ~HasKeyword(last_name_variations, lower(e.label)))
            => /\ e.position = <<e.coordinates[1] * image_width,
                                 e.coordinates[2] * image_height>>
               /\ \E n \in 1..Len(canvas) :
                     /\ canvas[n].op = "text"
                     /\ canvas[n].text = e.value
                     /\ canvas[n].xy = e.position
               /\ (image_size = <<1000, 2000>> /\ e.coordinates = <<25, 50>>)
                  => e.position = <<250 * 100, 1000 * 100>>

\* C17 witness: "First Name" = "Ann" matched to (.25, .5) on the 1000 x 2000
\* image and drawn at (250, 1000).
C17_Witness ==
    /\ CallDone
    /\ image_size = <<1000, 2000>>
    /\ \E i \in Entries :
          /\ last_call.trace[i].label = "First Name"
          /\ last_call.trace[i].via = "matched"
          /\ last_call.trace[i].coordinates = <<25, 50>>
          /\ last_call.trace[i].position = <<250 * 100, 1000 * 100>>
          /\ \E n \in 1..Len(canvas) :
                canvas[n] = [op |-> "text", xy |-> <<250 * 100, 1000 * 100>>,
                             text |-> "Ann", colour |-> "black"]

\* C19 (as claimed): in the pass that draws a value, at a matched coordinate
\* or at a fallback position, a rectangle is drawn around the extent of that
\* value's text.
C19_EveryDrawnValueBoxed ==
    CallDone =>
        /\ \A i \in Entries : last_call.trace[i].drawn => last_call.trace[i].boxed
        /\ \A n \in 1..Len(canvas) :
              canvas[n].op = "text"
              => /\ n < Len(canvas)
                 /\ canvas[n + 1].op = "rectangle"
                 /\ canvas[n + 1].xy = canvas[n].xy
                 /\ canvas[n + 1].text = canvas[n].text

\* every field the schema holds: the top-level list, then the sections' lists
\* in section order
SchemaFields(schema) ==
    GetFields(schema)
    \o (IF schema.has_sections THEN SectionFields(schema.sections) ELSE <<>>)

----------------------------------------------------------------------------
(* Properties of the save, under FileSpec *)

GeneratorOps ==
    { "generate_filled_image", "generate_filled_image_with_coordinates",
      "generate_filled_image_with_coordinate_file" }

\* C18 (as claimed): when the output image cannot be written, the generate_*
\* method that was called raises the failure to its caller after one render
\* pass and one save attempt: no second pass, no second save.
C18_SaveFailureRaisedAfterOnePass ==
    (last_call.op \in GeneratorOps /\ ~output_writable)
    => /\ last_call.raised
       /\ last_call.passes = 1
       /\ last_call.saves = 1
       /\ Len(last_call.trace) = Len(CallFields)

----------------------------------------------------------------------------
(* Properties of the workflows, under WorkflowSpec *)

\* C12 (as claimed): when a persisted coordinate map exists for the image a
\* workflow is run on, found by content hash or by filename, the workflow
\* renders with that map and does not invoke get_coordinate_mapping.
C12_PersistedMapSkipsAnalysis ==
    (workflow.op # "none" /\ workflow.persisted # <<>>)
    => /\ ~workflow.analysed
       /\ workflow.coords = workflow.persisted
       /\ field_coordinates = workflow.persisted

\* C13 (as claimed): a run of real_form_workflow positions fields with a map
\* read from the coordinate file only if no run, or a run on the same image,
\* wrote that file.
C13_MapReusedOnlyForItsImage ==
    (workflow.op = "real_form_workflow" /\ workflow.from_file
                                        /\ workflow.file_owner # "none")
    => workflow.file_owner = workflow.image

\* C14 (as claimed): when the coordinate file is missing or is not valid JSON,
\* real_form_workflow raises nothing to its caller, runs get_coordinate_mapping
\* and renders with its result.
C14_UnreadableFileRecovers ==
    (workflow.op = "real_form_workflow"
        /\ workflow.file_state \in {"missing", "invalid"})
    => /\ ~workflow.raised
       /\ workflow.analysed
       /\ last_call.op = "real_form_workflow"
       /\ last_call.coords = workflow.coords

----------------------------------------------------------------------------
(* Properties of the extractor, under ExtractSpec *)

ExtractionDone == extraction.op = "extract_field_coordinates"

page_width == analysis_result.pages[1].width

page_height == analysis_result.pages[1].height

\* polygon[i] + polygon[i + 2] + ... to the end of the polygon
RECURSIVE TotalFrom(_, _)
TotalFrom(polygon, i) ==
    IF i > Len(polygon) THEN 0 ELSE polygon[i] + TotalFrom(polygon, i + 2)

PointPairs(polygon) == Len(polygon) \div 2

\* the fraction equals a / b
Equals(fraction, a, b) == fraction.num * b = a * fraction.den

\* C15 (as claimed): extract_field_coordinates returns without raising, and no
\* entry of the map comes from a text element whose polygon has fewer than 2
\* point pairs or that lies on a page of zero width or zero height.
C15_MalformedElementSkipped ==
    ExtractionDone =>
        /\ ~extraction.raised
        /\ \A k \in 1..Len(extraction.stored) :
              LET e == Elements(analysis_result)[extraction.stored[k].element] IN
              /\ PointPairs(e.polygon) >= 2
              /\ page_width # 0
              /\ page_height # 0

\* C16: on a page of positive width and height, every text element that names
\* a field and has a polygon of at least 2 points is stored as (mean of the
\* polygon's x / page width, mean of its y / page height), and the stored
\* point lies in [0,1] x [0,1] whenever that mean lies within the page.
C16_NormalizedVertexMean ==
    (ExtractionDone /\ analysis_result.pages # <<>>
                    /\ page_width > 0 /\ page_height > 0) =>
        LET elements == Elements(analysis_result)
            Named(n) == /\ PointPairs(elements[n].polygon) >= 2
                        /\ _identify_field_label(strip(elements[n].content)) # NoLabel
        IN
        /\ ~extraction.raised
        /\ \A n \in 1..Len(elements) :
              Named(n) => \E k \in 1..Len(extraction.stored) :
                              extraction.stored[k].element = n
        /\ \A k \in 1..Len(extraction.stored) :
              LET s == extraction.stored[k]
                  polygon == elements[s.element].polygon
                  pairs == PointPairs(polygon)
                  total_x == TotalFrom(polygon, 1)
                  total_y == TotalFrom(polygon, 2)
              IN
              /\ Named(s.element)
              /\ Equals(s.xy[1], total_x, pairs * page_width)
              /\ Equals(s.xy[2], total_y, pairs * page_height)
              /\ ( /\ 0 <= total_x /\ total_x <= pairs * page_width
                   /\ 0 <= total_y /\ total_y <= pairs * page_height )
                 => /\ 0 <= s.xy[1].num /\ s.xy[1].num <= s.xy[1].den
                    /\ 0 <= s.xy[2].num /\ s.xy[2].num <= s.xy[2].den
              /\ \E j \in 1..Len(extraction.field_coordinates) :
                    extraction.field_coordinates[j].label = s.label

\* C16 witness: the triangle (0,0), (30,0), (0,30) labelled "City" on the
\* 100 x 50 page is stored at (10/100, 10/50), not at its box centre (15, 15).
C16_Witness ==
    /\ ExtractionDone
    /\ analysis_result.pages # <<>>
    /\ page_width = 100
    /\ page_height = 50
    /\ \E k \in 1..Len(extraction.stored) :
          /\ Elements(analysis_result)[extraction.stored[k].element].polygon
                = <<0, 0, 30, 0, 0, 30>>
          /\ extraction.stored[k].label = "city"
          /\ Equals(extraction.stored[k].xy[1], 10, 100)
          /\ Equals(extraction.stored[k].xy[2], 10, 50)

----------------------------------------------------------------------------
(* Properties of the drawn positions and of the output, under MatchSpec,   *)
(* Spec and FileSpec                                                        *)

\* every value of the map the last call used lies in [0,1] x [0,1]
MapInUnitSquare ==
    \A k \in Keys : /\ 0 <= last_call.coords[k].xy[1] /\ last_call.coords[k].xy[1] <= 100
                    /\ 0 <= last_call.coords[k].xy[2] /\ last_call.coords[k].xy[2] <= 100

\* C28 (as claimed): when every value of the coordinate map lies in
\* [0,1] x [0,1], every pixel position at which
\* generate_filled_image_with_coordinates draws a value lies within the image:
\* 0 <= x <= image_width and 0 <= y <= image_height.
C28_PositionsInsideImage ==
    (last_call.op = WithCoordinates /\ MapInUnitSquare) =>
        \A i \in Entries :
            LET e == last_call.trace[i] IN
            e.drawn => /\ 0 <= e.position[1] /\ e.position[1] <= 100 * image_width
                       /\ 0 <= e.position[2] /\ e.position[2] <= 100 * image_height

\* C23 (as claimed): given a schema that maps field names to values and a
\* coordinate map keyed by the same names, generate_filled_image_with_coordinates
\* draws every value at its key's coordinate, the last_name value 0.05 of the
\* page height below its coordinate (0.15, 0.30).
C23_MockSchemaDrawnAtKeys ==
    last_call.op = WithCoordinates =>
        \A i \in 1..Len(schema_before.values) :
            \A k \in Keys :
                LET item == schema_before.values[i]
                    xy == last_call.coords[k].xy
                    shift == IF item.name = "last_name" THEN 5 ELSE 0
                IN
                last_call.coords[k].label = item.name
                => \E n \in 1..Len(canvas) :
                      /\ canvas[n].op = "text"
                      /\ canvas[n].text = item.value
                      /\ canvas[n].xy = <<xy[1] * image_width,
                                          (xy[2] + shift) * image_height>>

\* C22: generate_filled_image_with_coordinates called with an explicit
\* output_path, whatever the schema and the map, returns exactly that path,
\* and the image has been saved at that path when the call returns.
C22_ExplicitPathReturned ==
    (/\ last_call.op = WithCoordinates
     /\ output_path # NoPath
     /\ ~last_call.raised)
    => /\ last_call.returned = output_path
       /\ last_call.saved
       /\ last_call.output_path = output_path

C22_Witness ==
    /\ last_call.op = WithCoordinates
    /\ output_path = "uploads/test_filled_form.jpg"
    /\ ~last_call.raised
    /\ last_call.returned = "uploads/test_filled_form.jpg"
    /\ last_call.output # <<>>

\* the text a saved image shows, in drawing order
TextOf(image) ==
    LET IsText(o) == o.op = "text" IN SelectSeq(image, IsText)

\* C29: the text in the output of a generate_* call is the text that call drew
\* for the schema it was passed, each value once: over a sequence of calls on
\* one generator instance no value drawn by an earlier call, or by an aborted
\* pass, is in a later output.
C29_OutputHoldsOnlyThisCall ==
    (last_call.op \in GeneratorOps /\ last_call.saved)
    => TextOf(last_call.output) = TextOf(AllDrawOps(last_call.trace))

\* C25: when the OpenAI mapping fails, by an API error or a reply that cannot
\* be parsed, the mapping is the basic extraction of the same analysis result
\* and no exception reaches the caller of get_coordinate_mapping.
C25_FailedMappingFallsBack ==
    (/\ extraction.op = "get_coordinate_mapping"
     /\ extraction.openai \in {"api_error", "unparseable"})
    => /\ ~extraction.raised
       /\ extraction.field_coordinates =
             extract_field_coordinates(analysis_result).field_coordinates

----------------------------------------------------------------------------
(* Properties of the hardcoded data manager, under HardcodedSpec *)

\* C30: after create_hardcoded_entry(image, schema, coordinates, values,
\* title) returns, find_hardcoded_data(image) returns the entry just created,
\* and apply_hardcoded_coordinates returns its coordinates when they are not
\* empty, whatever entries were loaded or created before for the same hash,
\* filename or stem.
C30_ReadYourWrites ==
    created # NoEntry =>
        \A image \in Images :
            image.name = created.image =>
                LET found == find_hardcoded_data(loaded_data, image) IN
                /\ found # <<>>
                /\ found[1].file = created.stem
                /\ found[1].form_title = created.form_title
                /\ found[1].coordinates = created.coordinates
                /\ created.coordinates # <<>> =>
                      apply_hardcoded_coordinates(loaded_data, <<>>, image)
                          = created.coordinates

----------------------------------------------------------------------------
(* Properties of the languages and the conversation, under ConversationSpec *)

LanguageMethods == {"speak_in_user_language", "translate_user_response_to_english"}

\* C24: every documented language (English, Ukrainian, Amharic) is supported:
\* set_user_language returns True for it and leaves user_language equal to it,
\* and with user_language a documented language, set either way, and the
\* speech engines working, speak_in_user_language and
\* translate_user_response_to_english complete without raising.
C24_DocumentedLanguagesSupported ==
    /\ (/\ language_call.op = "set_user_language"
        /\ lower(language_call.language) \in DocumentedLanguages)
       => /\ language_call.returned
          /\ user_language = lower(language_call.language)
    /\ (/\ language_call.op \in LanguageMethods
        /\ language_call.language \in DocumentedLanguages
        /\ language_call.engines)
       => ~language_call.raised

ConversationStarted ==
    conversation.pc # "idle" /\ required_fields # <<>>

ConversationEnded ==
    ConversationStarted /\ conversation.pc \in {"returned", "raised"}

\* C26: a started conversation emits conversation_complete once and calls
\* generate_filled_form once, after the last question, whatever is raised
\* while questions are asked, answers spoken back or the conversation finished:
\* never more than once, and once when the conversation has ended.
C26_CompletesExactlyOnce ==
    /\ conversation.completes <= 1
    /\ conversation.generates <= 1
    /\ conversation.completes = 1 => conversation.pc = "returned"
    /\ ConversationEnded => /\ conversation.completes = 1
                            /\ conversation.generates = 1

\* the fields are asked in schema order, each at most once
AskedInOrder ==
    \A a, b \in 1..Len(conversation.asked) :
        a < b => conversation.asked[a] < conversation.asked[b]

\* no field is passed over without having been asked or having raised
NoneSkippedSilently ==
    \A i \in 0..(Len(required_fields) - 1) :
        i < conversation.current_field_index
        => \/ \E a \in 1..Len(conversation.asked) : conversation.asked[a] = i
           \/ i \in conversation.raised

IndexInRange ==
    conversation.current_field_index \in 0..Len(required_fields)

\* C27: in a conversation over n required fields the fields are asked in
\* schema order, each at most once, none is skipped without having been asked
\* or having raised, and current_field_index stays within 0..n in every state,
\* through the except clause of ask_next_question too.
C27_FieldsInOrderIndexInRange ==
    ConversationStarted => /\ AskedInOrder
                           /\ NoneSkippedSilently
                           /\ IndexInRange

----------------------------------------------------------------------------
(* Properties of the server, under AppSpec *)

\* the threads inside run_workflow and the handlers inside start_conversation
RunningWorkflows == { t \in 1..Len(app.threads) : app.threads[t].pc = "run_workflow" }

RunningHandlers ==
    { h \in 1..Len(app.handlers) : app.handlers[h].pc = "start_conversation" }

\* C21: at most one form is processed at a time: once a start_processing event
\* has started a workflow, a further start_processing or start_conversation
\* event before it finishes never makes a second workflow or conversation run
\* at the same time on the shared WebSocketFormFiller and form filler.
C21_OneWorkflowAtATime ==
    Cardinality(RunningWorkflows) + Cardinality(RunningHandlers) <= 1

====
